---- MODULE Spec2Model ----
(***************************************************************************)
(* Document intake and combined-PDF generation of ss54-praiagrande.        *)
(*                                                                         *)
(* Spec      : the documents of the requests (processes), the files of the *)
(*             upload directory, and the operations of                     *)
(*             app/services/pdf_generation_service.py and                  *)
(*             app/services/document_service.py on them.                   *)
(* SpecPair  : the same operations on two processes, whose patients' names *)
(*             and types range over small sets.                            *)
(* SpecRetry : one call of a function wrapped by retry_file_operation      *)
(*             (app/services/storage_service.py), step by step.            *)
(* SpecUpload: the uploads of one process: create_document and save_file   *)
(*             (app/services/file_service.py) under the retry wrapper,     *)
(*             with sanitize_pdf and convert_image_to_pdf.                 *)
(* SpecMerge : PDFValidator.get_valid_documents and                        *)
(*             PDFMerger.merge_documents, statement by statement, on the   *)
(*             uploads a process starts with.                              *)
(* SpecSanitize: sanitize_pdf (app/utils/file_sanitization.py) on a PDF    *)
(*             and again on what it returned.                              *)
(* SpecHealth: StorageHealthChecker.check and the probe of the storage     *)
(*             (measure_io_latency, get_storage_health) as the clock runs. *)
(* SpecNames : create_document and delete_document on one process.         *)
(***************************************************************************)
EXTENDS Integers, Sequences, FiniteSets, TLC

VARIABLES
    patient_name,   \* process -> Process.patient.name, a sequence of characters
    process_type,   \* process -> Process.type.value
    documents,      \* the rows of the documents table (the session's view)
    files,          \* path -> content, for the files that exist under UPLOAD_DIR
    next_id,        \* process -> the number of the next Document.id drawn for it
    last,           \* the last operation called, its inputs and what it returned
    rw,             \* the retry wrapper's frame: attempt, delay, sleeps, outcome
    up,             \* the upload save_file is called with, and what became of it
    mg,             \* the list of valid documents and the call of merge_documents on it
    sn,             \* a PDF, and what sanitize_pdf made of it and of its own output
    hc              \* the StorageHealthChecker, the clock and its last check

vars == <<patient_name, process_type, documents, files, next_id, last, rw, up, mg, sn, hc>>

pdfVars == <<patient_name, process_type, documents, files, next_id, last>>

-----------------------------------------------------------------------------
(* Bounds of the model.                                                    *)

\* Documents a process may have uploaded.
MaxUploads == 2

\* The same two bounds for each process of SpecPair.
PairMaxUploads == 1

PairMaxId == 2

\* Document ids are fresh: every row of a process draws the next one, up to
\* this many for a process.
MaxId == 3

\* retry_file_operation is explored for max_retries up to MaxRetriesBound ...
MaxRetriesBound == 3

\* ... around a function whose first 0..MaxFailures calls raise.
MaxFailures == 4

-----------------------------------------------------------------------------
(* Program constants.                                                      *)

MAX_FILE_SIZE == 10485760

MAX_FILENAME_LEN == 255

\* settings.STORAGE_RETRY_DELAY is 0.5 s; the model counts milliseconds.
STORAGE_RETRY_DELAY_MS == 500

STORAGE_RETRY_MAX_ATTEMPTS == 3

Processes == {"p1", "p2"}

None == "None"

DOCUMENT_TYPE_ORDER ==
    <<"formulario", "declaracao", "receita", "relatorio", "documento_pessoal", "exame">>

PDF_COMBINADO == "pdf_combinado"

OUTRO == "outro"

\* The document types an upload is given in the model (map_document_id_to_type
\* yields one of the six ordered types, or OUTRO for any other id).
UploadTypes == {"exame", OUTRO}

ValidationStatus == {"pending", "valid", "invalid"}

ProcessTypes == {"medicamento", "nutricao"}

PROCESS_TYPE_TITLES(t) ==
    CASE t = "medicamento" -> "Medicamento"
      [] t = "nutricao" -> "Nutricao Enteral"
      [] t = "bomba" -> "Bomba de Insulina"
      [] t = "outro" -> "Outro"
      [] OTHER -> t

\* Patient names of the model: sequences of characters.
PatientNames == { <<"a">>, <<"a", "?">>, <<"b">> }

-----------------------------------------------------------------------------
(* sanitize_filename, on sequences of one-character strings.               *)

RECURSIVE LastIndexOf(_, _)
LastIndexOf(s, c) ==
    IF s = <<>> THEN 0
    ELSE IF s[Len(s)] = c THEN Len(s)
    ELSE LastIndexOf(SubSeq(s, 1, Len(s) - 1), c)

\* os.path.basename: what follows the last "/".
Basename(s) == SubSeq(s, LastIndexOf(s, "/") + 1, Len(s))

\* str.replace("..", ""): non-overlapping occurrences, left to right.
RECURSIVE RemoveDotDot(_)
RemoveDotDot(s) ==
    IF Len(s) < 2 THEN s
    ELSE IF s[1] = "." /\ s[2] = "." THEN RemoveDotDot(SubSeq(s, 3, Len(s)))
    ELSE <<s[1]>> \o RemoveDotDot(Tail(s))

WindowsChars == {"<", ">", ":", "\"", "|", "?", "*"}

\* The characters the regex [^\w\s\-.] keeps, among the model's alphabet.
WordChars == {"a", "b", "c", "d", "e", "f", "i", "l", "_"}

SpaceChars == {" "}

SafeChars == WordChars \cup SpaceChars \cup {"-", "."}

ReplaceUnsafe(s) ==
    [i \in 1..Len(s) |->
        IF s[i] \in WindowsChars \/ s[i] \notin SafeChars THEN "_" ELSE s[i]]

\* re.sub(r"[_\s]+", "_", s): every run of underscores and spaces becomes one "_".
RECURSIVE CollapseRuns(_)
CollapseRuns(s) ==
    IF s = <<>> THEN <<>>
    ELSE IF s[1] \in ({"_"} \cup SpaceChars)
         THEN IF Len(s) >= 2 /\ s[2] \in ({"_"} \cup SpaceChars)
              THEN CollapseRuns(Tail(s))
              ELSE <<"_">> \o CollapseRuns(Tail(s))
         ELSE <<s[1]>> \o CollapseRuns(Tail(s))

StripChars == {"_", ".", " "}

RECURSIVE LStrip(_)
LStrip(s) ==
    IF s # <<>> /\ s[1] \in StripChars THEN LStrip(Tail(s)) ELSE s

RECURSIVE RStrip(_)
RStrip(s) ==
    IF s # <<>> /\ s[Len(s)] \in StripChars
    THEN RStrip(SubSeq(s, 1, Len(s) - 1)) ELSE s

\* os.path.splitext, then name[:255 - len(ext)] + ext.
LimitLength(s) ==
    IF Len(s) > MAX_FILENAME_LEN
    THEN LET dot == LastIndexOf(s, ".")
             ext == IF dot > 1 THEN SubSeq(s, dot, Len(s)) ELSE <<>>
             name == IF dot > 1 THEN SubSeq(s, 1, dot - 1) ELSE s
             keep == MAX_FILENAME_LEN - Len(ext)
         IN  SubSeq(name, 1, IF keep < Len(name) THEN keep ELSE Len(name)) \o ext
    ELSE s

FallbackName == <<"f", "i", "l", "e">>

sanitize_filename(filename) ==
    IF filename = <<>> THEN FallbackName
    ELSE LET noNull == SelectSeq(filename, LAMBDA c : c # "NUL")
             base == RemoveDotDot(Basename(noNull))
             safe == ReplaceUnsafe(base)
             stripped == RStrip(LStrip(CollapseRuns(safe)))
             limited == LimitLength(stripped)
         IN  IF limited = <<>> THEN FallbackName ELSE limited

Desconhecido == <<"D", "e", "s", "c">>

\* A file name f"{stem}{sep}{suffix}.pdf", kept as its three parts.
Filename(stem, sep, suffix) == [stem |-> stem, sep |-> sep, suffix |-> suffix]

NoFilename == Filename(<<>>, None, None)

\* _generate_pdf_filename: f"{patient_name} - {process_type_label}.pdf".  A
\* sanitized name holds no space, so the parts determine the string.
GeneratePdfFilename(name, type) ==
    Filename(IF name # <<>> THEN sanitize_filename(name) ELSE Desconhecido,
             " - ", PROCESS_TYPE_TITLES(type))

\* save_file: f"{document_type.value}_{doc_index}{get_file_extension(mime_type)}",
\* the mime type being application/pdf for every stored upload.
StoredFilename(type, doc_index) == Filename(<<type>>, "_", ToString(doc_index))

\* A path under UPLOAD_DIR: directory, subdirectories, file name.
Path(dir, sub, protocol, filename) ==
    [dir |-> dir, sub |-> sub, protocol |-> protocol, filename |-> filename]

\* get_generated_pdfs_dir() / filename
GeneratedPath(filename) == Path("generated_pdfs", <<>>, None, filename)

\* get_process_upload_dir(patient_name, protocol_number) / stored_filename; the
\* protocol number is unique to the process.
UploadPath(name, p, stored_filename) ==
    Path("uploads", sanitize_filename(name), p, stored_filename)

-----------------------------------------------------------------------------
(* The documents table and the file system.                                *)

\* The sizes in bytes a stored file is seen to have.
UploadSizes == {4096}

StatSizes == {4096, MAX_FILE_SIZE + 1}

\* CheckConstraint "file_size > 0 AND file_size <= 10485760" of the documents table.
check_file_size(file_size) == file_size > 0 /\ file_size <= MAX_FILE_SIZE

\* A Document.id (a fresh UUID): the process the row was made for and the
\* number of the row among those made for it.
DocId(p, n) == <<p, n>>

Document(id, p, type, stored_filename, path, size, status) ==
    [id |-> id, process_id |-> p, document_type |-> type,
     stored_filename |-> stored_filename, file_path |-> path,
     file_size |-> size, mime_type |-> "application/pdf",
     validation_status |-> status]

\* The content of a file: the process it was written for and its pages; a page
\* is named by the upload it came from.
FileContent(p, pages) == [owner |-> p, pages |-> pages]

\* A path that names no file (the None of file_exists(None)).
NoPath == Path(None, <<>>, None, NoFilename)

file_exists(fs, path) == path # NoPath /\ path \in DOMAIN fs

Unlink(fs, path) == [q \in DOMAIN fs \ {path} |-> fs[q]]

WriteBytes(fs, path, content) == (path :> content) @@ fs

\* Process.documents, in the order the rows were inserted.
RECURSIVE SeqById(_)
SeqById(ds) ==
    IF ds = {} THEN <<>>
    ELSE LET d == CHOOSE x \in ds : \A y \in ds : x.id[2] <= y.id[2]
         IN  <<d>> \o SeqById(ds \ {d})

ProcessDocuments(docs, p) == SeqById({d \in docs : d.process_id = p})

CombinedPdfs(docs, p) ==
    {d \in docs : d.process_id = p /\ d.document_type = PDF_COMBINADO}

\* The None of Optional[Document]: no row has the number 0.
NoDocument == Document(DocId(None, 0), None, None, NoFilename, NoPath, 0, None)

IsDocument(d) == d.id[2] # 0

\* get_combined_pdf_for_process: .first() of the query.
get_combined_pdf_for_process(docs, p) ==
    IF CombinedPdfs(docs, p) = {} THEN NoDocument
    ELSE CHOOSE d \in CombinedPdfs(docs, p) :
             \A e \in CombinedPdfs(docs, p) : d.id[2] <= e.id[2]

\* A delete that leaves the combined PDF rows in the table.
delete_combined_pdfs_kept(docs, p) == docs

delete_combined_pdfs_for_process(docs, p) == docs \ CombinedPdfs(docs, p)

create_combined_pdf_document(docs, n, p, path, filename, size) ==
    docs \cup {Document(DocId(p, n), p, PDF_COMBINADO, filename, path, size, "valid")}

-----------------------------------------------------------------------------
(* PDFValidator.                                                           *)

InOrderList(type) == \E i \in 1..Len(DOCUMENT_TYPE_ORDER) : DOCUMENT_TYPE_ORDER[i] = type

\* A key that puts the types outside the list first.
get_doc_order_unlisted_first(doc) ==
    IF InOrderList(doc.document_type)
    THEN (CHOOSE i \in 1..Len(DOCUMENT_TYPE_ORDER) :
              DOCUMENT_TYPE_ORDER[i] = doc.document_type) - 1
    ELSE -1

\* DOCUMENT_TYPE_ORDER.index(type), or len(DOCUMENT_TYPE_ORDER) on ValueError.
get_doc_order(doc) ==
    IF InOrderList(doc.document_type)
    THEN (CHOOSE i \in 1..Len(DOCUMENT_TYPE_ORDER) :
              DOCUMENT_TYPE_ORDER[i] = doc.document_type) - 1
    ELSE Len(DOCUMENT_TYPE_ORDER)

\* list.sort(key=...) is stable: an element goes after those whose key is not larger.
InsertStable(sorted, d) ==
    LET n == Cardinality({i \in 1..Len(sorted) : get_doc_order(sorted[i]) <= get_doc_order(d)})
    IN  SubSeq(sorted, 1, n) \o <<d>> \o SubSeq(sorted, n + 1, Len(sorted))

RECURSIVE SortByDocOrder(_)
SortByDocOrder(s) ==
    IF s = <<>> THEN <<>>
    ELSE InsertStable(SortByDocOrder(SubSeq(s, 1, Len(s) - 1)), s[Len(s)])

\* A filter that takes the listed types whatever their validation status.
IsValidOrdered_any_status(d) == InOrderList(d.document_type)

IsValidOrdered(d) == d.validation_status = "valid" /\ InOrderList(d.document_type)

IsValidAdmin(d) == d.document_type = OUTRO /\ d.validation_status = "valid"

\* The sorted valid documents; <<>> stands for the None of "no valid documents".
get_valid_documents(process_documents) ==
    SortByDocOrder(SelectSeq(process_documents, IsValidOrdered)
                   \o SelectSeq(process_documents, IsValidAdmin))

-----------------------------------------------------------------------------
(* PDFMerger.merge_documents.                                              *)

\* What the storage does to one merge: it succeeds, or the save fails.
MergeOutcomes == {"ok", "save_fails"}

RECURSIVE MergedPages(_, _)
MergedPages(fs, docs_seq) ==
    IF docs_seq = <<>> THEN <<>>
    ELSE (IF file_exists(fs, docs_seq[1].file_path)
          THEN fs[docs_seq[1].file_path].pages ELSE <<>>)
         \o MergedPages(fs, Tail(docs_seq))

\* The return value and the file system after the call.
merge_documents(fs, docs_seq, output_path, p, outcome) ==
    IF outcome = "ok"
    THEN [ok |-> TRUE,
          files |-> WriteBytes(fs, output_path, FileContent(p, MergedPages(fs, docs_seq)))]
    ELSE [ok |-> FALSE, files |-> fs]

-----------------------------------------------------------------------------
(* generate_combined_pdf and ensure_combined_pdf.                          *)

\* What the environment does during one generation: the outcome of the merge
\* and the size os.stat reports for the merged file.
NoEnv == [merge |-> None, size |-> 0]

GenEnvs == {[merge |-> "ok", size |-> n] : n \in StatSizes}
           \cup {[NoEnv EXCEPT !.merge = m] : m \in MergeOutcomes \ {"ok"}}

RECURSIVE UnlinkAll(_, _)
UnlinkAll(fs, paths) ==
    IF paths = {} THEN fs
    ELSE LET q == CHOOSE x \in paths : TRUE
         IN  UnlinkAll(IF file_exists(fs, q) THEN Unlink(fs, q) ELSE fs, paths \ {q})

\* _delete_old_combined_pdfs: delete_file of every old combined PDF.
delete_old_combined_pdfs(fs, combined_pdfs) ==
    UnlinkAll(fs, {d.file_path : d \in combined_pdfs})

\* The state after a call and what it returned: path is the generated file's
\* path or NoPath (None); raised tells that an exception left the call; fs_ops
\* counts the files the call deleted or wrote, and merger_called tells that
\* merge_documents was called.
Outcome(docs, fs, nid, path, raised, fs_ops, merger_called) ==
    [documents |-> docs, files |-> fs, next_id |-> nid, path |-> path,
     raised |-> raised, fs_ops |-> fs_ops, merger_called |-> merger_called]

\* generate_combined_pdf from the return of merge_documents on: a failed merge
\* returns None; the size os.stat reports goes into the new row, and a row
\* the table's check constraint refuses makes db.flush() raise.
persist_merged(docs1, fs1, deleted, nid, p, size, filename, output_path, merged) ==
    IF ~merged.ok
    THEN Outcome(docs1, fs1, nid, NoPath, FALSE, deleted, TRUE)
    ELSE IF ~check_file_size(size)
    THEN Outcome(docs1, merged.files, nid, NoPath, TRUE, deleted + 1, TRUE)
    ELSE Outcome(create_combined_pdf_document(docs1, nid[p], p, output_path, filename, size),
                 merged.files, [nid EXCEPT ![p] = nid[p] + 1], output_path,
                 FALSE, deleted + 1, TRUE)

\* generate_combined_pdf once the old combined PDFs are deleted: None without
\* valid documents, else the merge into the generated file.
merge_valid_documents(docs1, fs1, deleted, nid, p, env, valid_documents, filename) ==
    IF valid_documents = <<>>
    THEN Outcome(docs1, fs1, nid, NoPath, FALSE, deleted, FALSE)
    ELSE persist_merged(docs1, fs1, deleted, nid, p, env.size, filename,
                        GeneratedPath(filename),
                        merge_documents(fs1, valid_documents, GeneratedPath(filename),
                                        p, env.merge))

generate_combined_pdf(docs, fs, nid, name, type, p, env) ==
    LET existing == {d \in docs : d.process_id = p /\ d.document_type = PDF_COMBINADO}
    IN  merge_valid_documents(
            IF existing # {} THEN delete_combined_pdfs_for_process(docs, p) ELSE docs,
            delete_old_combined_pdfs(fs, existing),
            Cardinality({d \in existing : file_exists(fs, d.file_path)}),
            nid, p, env,
            get_valid_documents(ProcessDocuments(docs, p)),
            GeneratePdfFilename(name, type))

PDFEnsureResult(pdf, generated, skipped, skip_reason) ==
    [pdf |-> pdf, generated |-> generated, skipped |-> skipped,
     skip_reason |-> skip_reason, error |-> None]

\* No PDFEnsureResult: the call raised, or was not an ensure.
NoResult == [pdf |-> NoDocument, generated |-> FALSE, skipped |-> FALSE,
             skip_reason |-> None, error |-> "no result"]

\* An ensure that never takes the existing combined PDF for current.
IsCacheHit_never(fs, combined_pdf) == FALSE

\* An ensure that trusts the combined PDF row without looking for its file.
IsCacheHit_row_only(fs, combined_pdf) == IsDocument(combined_pdf)

\* The test of ensure_combined_pdf for returning the existing combined PDF.
IsCacheHit(fs, combined_pdf) ==
    IsDocument(combined_pdf) /\ file_exists(fs, combined_pdf.file_path)

\* ensure_combined_pdf after generate_combined_pdf returned g: generated_pdf is
\* the combined PDF queried then.
ensure_result(g, generated_pdf) ==
    IF g.raised THEN g @@ [result |-> NoResult]
    ELSE IF g.path # NoPath /\ IsDocument(generated_pdf)
    THEN g @@ [result |-> PDFEnsureResult(generated_pdf, TRUE, FALSE, None)]
    ELSE g @@ [result |-> PDFEnsureResult(NoDocument, FALSE, TRUE, "no_valid_docs")]

ensure_generated(g, p) ==
    ensure_result(g, get_combined_pdf_for_process(g.documents, p))

\* An ensure that returns the combined PDF row it finds, and generates only
\* when there is none.
ensure_from_any_row(docs, fs, nid, name, type, p, env, combined_pdf) ==
    IF IsDocument(combined_pdf)
    THEN Outcome(docs, fs, nid, NoPath, FALSE, 0, FALSE)
         @@ [result |-> PDFEnsureResult(combined_pdf, FALSE, FALSE, None)]
    ELSE ensure_generated(generate_combined_pdf(docs, fs, nid, name, type, p, env), p)

ensure_from(docs, fs, nid, name, type, p, env, combined_pdf) ==
    IF IsCacheHit(fs, combined_pdf)
    THEN Outcome(docs, fs, nid, NoPath, FALSE, 0, FALSE)
         @@ [result |-> PDFEnsureResult(combined_pdf, FALSE, FALSE, None)]
    ELSE ensure_generated(generate_combined_pdf(docs, fs, nid, name, type, p, env), p)

ensure_combined_pdf(docs, fs, nid, name, type, p, env) ==
    ensure_from(docs, fs, nid, name, type, p, env, get_combined_pdf_for_process(docs, p))

-----------------------------------------------------------------------------
(* ensure_combined_pdfs_batch.                                             *)

\* The lists of process ids a batch is called with.
BatchIds == {<<p>> : p \in Processes}
            \cup {<<pq[1], pq[2]>> : pq \in {x \in Processes \X Processes : x[1] # x[2]}}

\* The loop from its i-th id on: results is the dict built so far.  An
\* exception raised by ensure_combined_pdf leaves the loop and the function.
RECURSIVE batch_loop(_, _, _, _, _, _, _)
batch_step(r, ids, envs, i, results) ==
    IF r.raised
    THEN [documents |-> r.documents, files |-> r.files, next_id |-> r.next_id,
          results |-> results, raised |-> TRUE]
    ELSE batch_loop(r.documents, r.files, r.next_id, ids, envs, i + 1,
                    (ids[i] :> r.result) @@ results)

batch_loop(docs, fs, nid, ids, envs, i, results) ==
    IF i > Len(ids)
    THEN [documents |-> docs, files |-> fs, next_id |-> nid,
          results |-> results, raised |-> FALSE]
    ELSE batch_step(ensure_combined_pdf(docs, fs, nid, patient_name[ids[i]],
                                        process_type[ids[i]], ids[i], envs[i]),
                    ids, envs, i, results)

ensure_combined_pdfs_batch(docs, fs, nid, ids, envs) ==
    batch_loop(docs, fs, nid, ids, envs, 1, <<>>)

-----------------------------------------------------------------------------
(* The record of the last call of the PDF generation service; NoCall once  *)
(* another operation has run since.                                        *)

NoCall ==
    [op |-> "none", process |-> None, ids |-> <<>>, env |-> NoEnv,
     result |-> NoResult, results |-> <<>>, raised |-> FALSE, fs_ops |-> 0,
     merger_called |-> FALSE, records_changed |-> FALSE,
     pre_combined |-> FALSE, pre_file |-> FALSE, pre_valid |-> FALSE]

\* The record of a generate or ensure call on process p, with environment env,
\* that ended as r.  env is kept when the merger was called; pre_combined,
\* pre_file and pre_valid tell of the state the call started in: whether the
\* process had a combined PDF row, whether that row's file existed, whether
\* the process had a valid document to merge.
CallRecord(op, p, env, r) ==
    [NoCall EXCEPT
        !.op = op, !.process = p, !.env = IF r.merger_called THEN env ELSE NoEnv,
        !.raised = r.raised, !.fs_ops = r.fs_ops, !.merger_called = r.merger_called,
        !.records_changed = (r.documents # documents),
        !.pre_combined = IsDocument(get_combined_pdf_for_process(documents, p)),
        !.pre_file = file_exists(files, get_combined_pdf_for_process(documents, p).file_path),
        !.pre_valid = (get_valid_documents(ProcessDocuments(documents, p)) # <<>>)]

\* The content of an upload or of a stored file, as far as the code looks at
\* it: the type its leading bytes announce (filetype.guess), its length, what
\* a parser finds in it (a PDF that is clean, carries dangerous elements, is
\* encrypted or corrupt; an image that decodes, "clean", or not, "corrupt"),
\* and whether the bytes came out of sanitize_pdf's inspection of the
\* document structure.
Bytes(magic, size, body, inspected) ==
    [magic |-> magic, size |-> size, body |-> body, inspected |-> inspected]

\* b"": what read() returns at the end of the stream.
EmptyBytes == Bytes("none", 0, "clean", FALSE)

ValidationResult(is_valid, mime_type, error) ==
    [is_valid |-> is_valid, mime_type |-> mime_type, error |-> error]

NoValidation == ValidationResult(FALSE, None, "not validated")

\* fastapi's UploadFile: the name and content type the client declares, and
\* the bytes of the stream.
UploadFile(filename, content_type, content) ==
    [filename |-> filename, content_type |-> content_type, content |-> content]

\* The tuple save_file returns; extension is the end of stored_filename.
SaveResult(stored_filename, extension, file_path, file_size, mime_type) ==
    [stored_filename |-> stored_filename, extension |-> extension,
     file_path |-> file_path, file_size |-> file_size, mime_type |-> mime_type]

NoSaved == SaveResult(NoFilename, None, NoPath, 0, None)

\* What the installation and the storage do to one attempt of save_file:
\* whether pikepdf can be imported ("missing" not) and works ("error": an
\* unexpected exception in it), whether the image conversion fails, the
\* length of what the sanitizer re-encodes or the converter produces, and
\* whether the write to the upload directory raises OSError.
UploadEnv(pikepdf, convert, out_size, write) ==
    [pikepdf |-> pikepdf, convert |-> convert, out_size |-> out_size, write |-> write]

FairEnv == UploadEnv("ok", "ok", 4096, "ok")

\* The frame of create_document around save_file: the upload, the position of
\* its stream, the process and type it is for, the environment and the
\* validation of the last attempt and what its call of sanitize_pdf came to,
\* what save_file returned, and the exception class that left create_document
\* (None while it runs or when it returned).
NoUpload ==
    [pc |-> "idle", file |-> UploadFile(None, None, EmptyBytes), pos |-> "start",
     process |-> None, document_type |-> None, env |-> FairEnv,
     validation |-> NoValidation,
     sanitized |-> [raised |-> "not called", value |-> EmptyBytes],
     result |-> NoSaved, raised |-> None]

\* The content of a PDF as pikepdf sees it: whether it can be opened
\* ("parseable", "encrypted", "corrupt"), the keys it holds (/Names in the
\* root, /JavaScript and /EmbeddedFiles in /Names, /OpenAction and /AA in the
\* root, the pages that hold /AA), and who wrote the bytes ("uploaded": the
\* client, "pikepdf": pdf.save).
Pdf(kind, names, javascript, embedded_files, open_action, aa, page_aa, serial) ==
    [kind |-> kind, names |-> names, javascript |-> javascript,
     embedded_files |-> embedded_files, open_action |-> open_action, aa |-> aa,
     page_aa |-> page_aa, serial |-> serial]

NoPdf == Pdf(None, FALSE, FALSE, FALSE, FALSE, FALSE, {}, None)

\* What a call of sanitize_pdf came to: the class of the exception it raised
\* (None when it returned, "not called" before the call) and the bytes it
\* returned.
Sanitized(raised, output) == [raised |-> raised, output |-> output]

\* No PDF has been given to sanitize_pdf.
NoSanitize ==
    [pc |-> "idle", content |-> NoPdf, once |-> Sanitized("not called", NoPdf),
     twice |-> Sanitized("not called", NoPdf)]

\* A StorageHealth, with the number of the probe that made it (0: None).
StorageHealth(available, read_latency_ms, write_latency_ms, error, probe) ==
    [available |-> available, read_latency_ms |-> read_latency_ms,
     write_latency_ms |-> write_latency_ms, error |-> error, probe |-> probe]

NoStorageHealth == StorageHealth(FALSE, None, None, None, 0)

\* What the storage does to one probe: whether the mount is available, how
\* the write of the test file ends ("ok", "fails": no file is left,
\* "partial": it fails and leaves a file), whether the read and the unlink
\* succeed.
ProbeEnv(available, write, read, unlink) ==
    [available |-> available, write |-> write, read |-> read, unlink |-> unlink]

FairProbeEnv == ProbeEnv(TRUE, "ok", "ok", "ok")

\* A StorageHealthChecker after __init__, the clock (time.time(), in
\* seconds), and the last call of check: its argument, the clock it read,
\* the cache it found, whether it probed, the environment of the probe and
\* the value it returned.
NoHealthChecker ==
    [check_interval |-> 0, _last_check |-> NoStorageHealth, _last_check_time |-> 0,
     now |-> 0, probes |-> 0,
     call |-> [force |-> FALSE, now |-> -1, cached |-> NoStorageHealth,
               cached_time |-> 0, probed |-> FALSE, env |-> FairProbeEnv,
               returned |-> NoStorageHealth]]

\* What the installation and the storage do to one call of merge_documents:
\* whether pikepdf can be imported, the input document (its place in the list,
\* 0 for none) at which pikepdf raises, where it does ("open": in
\* pikepdf.open, "append": in the append of its second page) and what, and the
\* end of the save ("ok", "OSError": save raises, "not_created": save returns
\* and no file is there).
MergeEnv(pikepdf, fail_at, fail_in, fail_with, save) ==
    [pikepdf |-> pikepdf, fail_at |-> fail_at, fail_in |-> fail_in,
     fail_with |-> fail_with, save |-> save]

FairMergeEnv == MergeEnv("ok", 0, None, None, "ok")

\* The frame of a merge: where it is ("idle", "validated" once
\* get_valid_documents has returned a list, "no_valid_docs" once it has
\* returned None, "merged" once merge_documents has returned or raised), the
\* list get_valid_documents returned, the path and the environment
\* merge_documents was called with, and the value it returned.
NoMerge ==
    [pc |-> "idle", valid_documents |-> <<>>, output_path |-> NoPath,
     env |-> FairMergeEnv, result |-> FALSE]

\* An exception object: its class and the attempt of the wrapped function
\* that raised it (-1: none, or the wrapper itself constructed it).
Exception(kind, attempt) == [kind |-> kind, attempt |-> attempt]

NoException == Exception(None, -1)

\* An idle frame of the retry wrapper (Spec does not run it).
RwIdle ==
    [pc |-> "idle", max_retries |-> 0, exponential_backoff |-> TRUE,
     raises |-> <<>>, attempt |-> 0, attempts |-> 0, delay |-> 0,
     sleeps |-> <<>>, last_exception |-> NoException,
     raised |-> NoException, cause |-> NoException]

-----------------------------------------------------------------------------
(* The operations.                                                         *)

Uploads(docs, p) == {d \in docs : d.process_id = p /\ d.document_type # PDF_COMBINADO}

\* get_document_type_index: the count of the process's documents of the type, plus 1.
get_document_type_index(docs, p, type) ==
    Cardinality({d \in docs : d.process_id = p /\ d.document_type = type}) + 1

\* create_document with an upload save_file accepts: the file is written under
\* the process's directory as {document_type}_{index}.pdf and the row is added
\* as pending.
CreateDocument(p, type, size) ==
    /\ Cardinality(Uploads(documents, p)) < MaxUploads
    /\ next_id[p] <= MaxId
    /\ LET stored_filename ==
               StoredFilename(type, get_document_type_index(documents, p, type))
           path == UploadPath(patient_name[p], p, stored_filename)
       IN  /\ files' = WriteBytes(files, path, FileContent(p, <<DocId(p, next_id[p])>>))
           /\ documents' = documents \cup
                  {Document(DocId(p, next_id[p]), p, type, stored_filename, path,
                            size, "pending")}
    /\ next_id' = [next_id EXCEPT ![p] = next_id[p] + 1]
    /\ last' = NoCall
    /\ UNCHANGED <<patient_name, process_type, rw, up, mg, sn, hc>>

\* update_document_validation: the row's validation_status is set.
UpdateDocumentValidation(d, status) ==
    /\ d \in documents
    /\ documents' = (documents \ {d}) \cup {[d EXCEPT !.validation_status = status]}
    /\ last' = NoCall
    /\ UNCHANGED <<patient_name, process_type, files, next_id, rw, up, mg, sn, hc>>

\* A generated PDF disappears from the storage without the application's doing.
OutOfBandDelete(path) ==
    /\ path \in DOMAIN files
    /\ path.dir = "generated_pdfs"
    /\ files' = Unlink(files, path)
    /\ last' = NoCall
    /\ UNCHANGED <<patient_name, process_type, documents, next_id, rw, up, mg, sn, hc>>

\* get_db: the session commits when the request succeeds and rolls the rows
\* back when an exception leaves it; files are not rolled back.
Committed(r) == IF r.raised THEN documents ELSE r.documents

GenerateCombinedPdf(p, env) ==
    \E r \in {generate_combined_pdf(documents, files, next_id,
                                   patient_name[p], process_type[p], p, env)} :
        /\ \A q \in Processes : r.next_id[q] <= MaxId + 1
        /\ documents' = Committed(r)
        /\ files' = r.files
        /\ next_id' = r.next_id
        /\ last' = CallRecord("generate_combined_pdf", p, env, r)
        /\ UNCHANGED <<patient_name, process_type, rw, up, mg, sn, hc>>

EnsureCombinedPdf(p, env) ==
    \E r \in {ensure_combined_pdf(documents, files, next_id,
                                 patient_name[p], process_type[p], p, env)} :
        /\ \A q \in Processes : r.next_id[q] <= MaxId + 1
        /\ documents' = Committed(r)
        /\ files' = r.files
        /\ next_id' = r.next_id
        /\ last' = [CallRecord("ensure_combined_pdf", p, env, r) EXCEPT !.result = r.result]
        /\ UNCHANGED <<patient_name, process_type, rw, up, mg, sn, hc>>

EnsureCombinedPdfsBatch(ids, envs) ==
    \E r \in {ensure_combined_pdfs_batch(documents, files, next_id, ids, envs)} :
        /\ \A q \in Processes : r.next_id[q] <= MaxId + 1
        /\ documents' = Committed(r)
        /\ files' = r.files
        /\ next_id' = r.next_id
        /\ last' = [NoCall EXCEPT !.op = "ensure_combined_pdfs_batch", !.ids = ids,
                                  !.results = r.results, !.raised = r.raised]
        /\ UNCHANGED <<patient_name, process_type, rw, up, mg, sn, hc>>

\* Spec: the operations on one process, p1.
SoleProcess == {"p1"}

Init ==
    /\ patient_name = [p \in Processes |-> <<"a", "?">>]
    /\ process_type = [p \in Processes |-> "medicamento"]
    /\ documents = {}
    /\ files = <<>>
    /\ next_id = [p \in Processes |-> 1]
    /\ last = NoCall
    /\ rw = RwIdle
    /\ up = NoUpload
    /\ mg = NoMerge
    /\ sn = NoSanitize
    /\ hc = NoHealthChecker

Next ==
    \/ \E p \in SoleProcess, type \in UploadTypes, size \in UploadSizes :
           CreateDocument(p, type, size)
    \/ \E p \in SoleProcess, status \in ValidationStatus :
           \E d \in Uploads(documents, p) : UpdateDocumentValidation(d, status)
    \/ \E path \in DOMAIN files : OutOfBandDelete(path)
    \/ \E p \in SoleProcess, env \in GenEnvs : GenerateCombinedPdf(p, env)
    \/ \E p \in SoleProcess, env \in GenEnvs : EnsureCombinedPdf(p, env)
    \/ \E ids \in {<<p>> : p \in SoleProcess} : \E envs \in [1..Len(ids) -> GenEnvs] :
           EnsureCombinedPdfsBatch(ids, envs)

Spec == Init /\ [][Next]_vars

-----------------------------------------------------------------------------
(* SpecPair: the operations on two processes, each with at most            *)
(* PairMaxUploads uploads and PairMaxId rows in all.  p1 is given a name   *)
(* and a type; p2 ranges over all of them.                                 *)

PairBound ==
    \A p \in Processes :
        /\ next_id[p] <= PairMaxId + 1
        /\ Cardinality(Uploads(documents, p)) <= PairMaxUploads

PairUploadTypes == {"exame"}

InitPair ==
    /\ patient_name \in {f \in [Processes -> PatientNames] : f["p1"] = <<"a">>}
    /\ process_type \in {f \in [Processes -> ProcessTypes] : f["p1"] = "medicamento"}
    /\ documents = {}
    /\ files = <<>>
    /\ next_id = [p \in Processes |-> 1]
    /\ last = NoCall
    /\ rw = RwIdle
    /\ up = NoUpload
    /\ mg = NoMerge
    /\ sn = NoSanitize
    /\ hc = NoHealthChecker

NextPair ==
    \/ /\ \E p \in Processes, type \in PairUploadTypes, size \in UploadSizes :
              CreateDocument(p, type, size)
       /\ PairBound'
    \/ \E p \in Processes, status \in ValidationStatus :
           \E d \in Uploads(documents, p) : UpdateDocumentValidation(d, status)
    \/ \E path \in DOMAIN files : OutOfBandDelete(path)
    \/ /\ \E p \in Processes, env \in GenEnvs : GenerateCombinedPdf(p, env)
       /\ PairBound'
    \/ /\ \E p \in Processes, env \in GenEnvs : EnsureCombinedPdf(p, env)
       /\ PairBound'
    \/ /\ \E ids \in BatchIds : \E envs \in [1..Len(ids) -> GenEnvs] :
              EnsureCombinedPdfsBatch(ids, envs)
       /\ PairBound'

SpecPair == InitPair /\ [][NextPair]_vars

-----------------------------------------------------------------------------
(* retry_file_operation: one call of the wrapper, attempt by attempt.      *)

\* The classes of the exceptions the wrapped functions raise, with their base
\* class (IOError is an alias of OSError).
ExceptionKinds ==
    {"OSError", "FileNotFoundError", "StorageRetryableError", "FileValidationError"}

BaseClass(kind) ==
    CASE kind = "FileNotFoundError" -> "OSError"
      [] kind = "OSError" -> "Exception"
      [] kind = "StorageRetryableError" -> "StorageError"
      [] kind = "StorageUnavailableError" -> "StorageError"
      [] kind = "StorageError" -> "Exception"
      [] kind = "FileValidationError" -> "Exception"
      [] kind = "ImageValidationError" -> "Exception"
      [] kind = "ImageConversionError" -> "Exception"
      [] kind = "ValueError" -> "Exception"
      [] kind = "ImportError" -> "Exception"
      [] kind = "PdfError" -> "Exception"
      [] kind = "IntegrityError" -> "Exception"
      [] kind = "PDFGenerationError" -> "Exception"
      [] kind = "PDFFileNotFoundError" -> "PDFGenerationError"
      [] OTHER -> "BaseException"

RECURSIVE IsInstance(_, _)
IsInstance(kind, class) ==
    IF kind = class THEN TRUE
    ELSE IF kind \in {"Exception", "BaseException"} THEN FALSE
    ELSE IsInstance(BaseClass(kind), class)

retryable_exceptions == {"OSError", "IOError", "StorageRetryableError"}

\* An except clause that catches every exception.
IsRetryable_any(kind) == TRUE

\* except retryable_exceptions as e
IsRetryable(kind) ==
    \E class \in retryable_exceptions :
        IsInstance(kind, IF class = "IOError" THEN "OSError" ELSE class)

\* A loop that gives up one attempt early.
IsLastAttempt_early(attempt, max_retries) == attempt >= max_retries - 1

\* if attempt == max_retries
IsLastAttempt(attempt, max_retries) == attempt = max_retries

\* The behaviours of the wrapped function: raises[i] is the class it raises on
\* its i-th call; it returns from call Len(raises) + 1 on.
RECURSIVE SeqsUpTo(_, _)
SeqsUpTo(S, n) ==
    IF n = 0 THEN {<<>>}
    ELSE LET shorter == SeqsUpTo(S, n - 1)
         IN  shorter \cup {Append(q, x) : q \in {r \in shorter : Len(r) = n - 1}, x \in S}

Raises == SeqsUpTo(ExceptionKinds, MaxFailures)

\* wrapper(*args, **kwargs) is entered: last_exception = None, delay =
\* retry_delay, and the loop over range(max_retries + 1) starts; an empty range
\* falls through to the raise after the loop.
RetryEnter ==
    /\ rw.pc = "idle"
    /\ \E max_retries \in -1..MaxRetriesBound, exponential_backoff \in BOOLEAN,
          raises \in Raises :
           rw' = [RwIdle EXCEPT
                     !.pc = IF max_retries + 1 > 0 THEN "call" ELSE "raised",
                     !.max_retries = max_retries,
                     !.exponential_backoff = exponential_backoff,
                     !.raises = raises,
                     !.delay = STORAGE_RETRY_DELAY_MS,
                     !.raised = IF max_retries + 1 > 0 THEN NoException
                                ELSE Exception("StorageRetryableError", -1)]
    /\ UNCHANGED <<pdfVars, up, mg, sn, hc>>

\* One iteration of the loop up to time.sleep, once func has returned (e is
\* NoException) or raised e: an exception the except clause lets through
\* leaves the wrapper, one it catches is wrapped in StorageRetryableError on
\* the last attempt.
wrapper_call(frame, e) ==
    LET called == [frame EXCEPT !.attempts = @ + 1]
    IN  IF e = NoException
        THEN [called EXCEPT !.pc = "returned"]
        ELSE IF ~IsRetryable(e.kind)
        THEN [called EXCEPT !.pc = "raised", !.raised = e]
        ELSE IF IsLastAttempt(frame.attempt, frame.max_retries)
        THEN [called EXCEPT !.pc = "raised", !.last_exception = e,
                            !.raised = Exception("StorageRetryableError", -1),
                            !.cause = e]
        ELSE [called EXCEPT !.pc = "sleep", !.last_exception = e]

\* A backoff that doubles the delay before the sleep instead of after it.
wrapper_sleep_doubled_first(frame) ==
    [frame EXCEPT
        !.pc = "call",
        !.sleeps = Append(@, IF frame.exponential_backoff THEN frame.delay * 2
                             ELSE frame.delay),
        !.delay = IF frame.exponential_backoff THEN @ * 2 ELSE @,
        !.attempt = @ + 1]

\* time.sleep(delay) returns, the delay doubles under exponential_backoff, and
\* the loop takes its next attempt.
wrapper_sleep(frame) ==
    [frame EXCEPT
        !.pc = "call",
        !.sleeps = Append(@, frame.delay),
        !.delay = IF frame.exponential_backoff THEN @ * 2 ELSE @,
        !.attempt = @ + 1]

\* func is called: it raises rw.raises[i] on its i-th call and returns later.
RetryCall ==
    /\ rw.pc = "call"
    /\ rw' = wrapper_call(rw, IF rw.attempt + 1 > Len(rw.raises) THEN NoException
                              ELSE Exception(rw.raises[rw.attempt + 1], rw.attempt))
    /\ UNCHANGED <<pdfVars, up, mg, sn, hc>>

RetrySleep ==
    /\ rw.pc = "sleep"
    /\ rw' = wrapper_sleep(rw)
    /\ UNCHANGED <<pdfVars, up, mg, sn, hc>>

InitRetry ==
    /\ patient_name = [p \in Processes |-> <<"a">>]
    /\ process_type = [p \in Processes |-> "medicamento"]
    /\ documents = {}
    /\ files = <<>>
    /\ next_id = [p \in Processes |-> 1]
    /\ last = NoCall
    /\ rw = RwIdle
    /\ up = NoUpload
    /\ mg = NoMerge
    /\ sn = NoSanitize
    /\ hc = NoHealthChecker

NextRetry ==
    \/ RetryEnter
    \/ RetryCall
    \/ RetrySleep

SpecRetry == InitRetry /\ [][NextRetry]_vars

-----------------------------------------------------------------------------
(* Uploads: _validate_file_content, sanitize_pdf, convert_image_to_pdf and *)
(* save_file.                                                              *)

ALLOWED_MIME_TYPES == {"application/pdf", "image/jpeg", "image/png"}

\* MIME_TO_EXT.get(mime_type, ".bin")
get_file_extension(mime_type) ==
    CASE mime_type = "application/pdf" -> ".pdf"
      [] mime_type = "image/jpeg" -> ".jpg"
      [] mime_type = "image/png" -> ".png"
      [] OTHER -> ".bin"

\* filetype.guess(content): the type of the leading bytes, or None.
detect_mime_type(content) ==
    CASE content.magic = "pdf" -> "application/pdf"
      [] content.magic = "jpeg" -> "image/jpeg"
      [] content.magic = "png" -> "image/png"
      [] content.magic = "gif" -> "image/gif"
      [] OTHER -> None

\* A validation whose size limit is exclusive.
_validate_file_content_exclusive(content, file_size) ==
    IF file_size >= MAX_FILE_SIZE
    THEN ValidationResult(FALSE, None, "Arquivo muito grande")
    ELSE IF detect_mime_type(content) = None
    THEN ValidationResult(FALSE, None, "Nao foi possivel identificar o tipo de arquivo")
    ELSE IF detect_mime_type(content) \notin ALLOWED_MIME_TYPES
    THEN ValidationResult(FALSE, detect_mime_type(content), "Tipo de arquivo nao permitido")
    ELSE ValidationResult(TRUE, detect_mime_type(content), None)

_validate_file_content(content, file_size) ==
    IF file_size > MAX_FILE_SIZE
    THEN ValidationResult(FALSE, None, "Arquivo muito grande")
    ELSE IF detect_mime_type(content) = None
    THEN ValidationResult(FALSE, None, "Nao foi possivel identificar o tipo de arquivo")
    ELSE IF detect_mime_type(content) \notin ALLOWED_MIME_TYPES
    THEN ValidationResult(FALSE, detect_mime_type(content), "Tipo de arquivo nao permitido")
    ELSE ValidationResult(TRUE, detect_mime_type(content), None)

\* What a function returns or raises: raised is the class of the exception, or
\* None when it returned value.
Returned(value) == [raised |-> None, value |-> value]

Raised(kind) == [raised |-> kind, value |-> EmptyBytes]

UploadEnvs ==
    {FairEnv,
     [FairEnv EXCEPT !.pikepdf = "missing"],
     [FairEnv EXCEPT !.pikepdf = "error"],
     [FairEnv EXCEPT !.convert = "fails"],
     [FairEnv EXCEPT !.out_size = MAX_FILE_SIZE + 1],
     [FairEnv EXCEPT !.write = "OSError"]}

\* sanitize_pdf: without pikepdf the content is returned as it came; a PDF
\* pikepdf cannot open, or any unexpected exception, is a ValueError; a PDF with
\* dangerous elements is re-encoded without them; any other is returned as it
\* came, after the inspection.
sanitize_pdf(content, env) ==
    IF env.pikepdf = "missing" THEN Returned(content)
    ELSE IF content.body = "encrypted" THEN Raised("ValueError")
    ELSE IF content.body = "corrupt" THEN Raised("ValueError")
    ELSE IF env.pikepdf = "error" THEN Raised("ValueError")
    ELSE IF content.body = "dangerous"
    THEN Returned(Bytes("pdf", env.out_size, "clean", TRUE))
    ELSE Returned([content EXCEPT !.inspected = TRUE])

\* convert_image_to_pdf: ImageValidator.validate rejects an image that does
\* not decode; the converters may fail; else the PDF they write is returned.
convert_image_to_pdf(image_bytes, env) ==
    IF image_bytes.body # "clean" THEN Raised("ImageValidationError")
    ELSE IF env.convert = "fails" THEN Raised("ImageConversionError")
    ELSE Returned(Bytes("pdf", env.out_size, "clean", FALSE))

\* file.file.read(): the bytes from the stream's position on.
read(file, pos) == IF pos = "start" THEN file.content ELSE EmptyBytes

\* sanitize_pdf was not called.
NotCalled == [raised |-> "not called", value |-> EmptyBytes]

\* The end of an attempt of save_file: the exception class it raised (or None),
\* what it returned, the files after it, the validation it made and what its
\* call of sanitize_pdf came to.
SaveOutcome(raised, result, fs, validation, sanitized) ==
    [raised |-> raised, result |-> result, files |-> fs, validation |-> validation,
     sanitized |-> sanitized]

\* save_file from "Update file size after potential modification" on: the
\* name {document_type}_{index}{extension} under the process's directory, and
\* the write.
store_upload(docs, fs, content, mime_type, p, type, name, env, validation, sanitized) ==
    IF env.write = "OSError"
    THEN SaveOutcome("OSError", NoSaved, fs, validation, sanitized)
    ELSE SaveOutcome(None,
             SaveResult(StoredFilename(type, get_document_type_index(docs, p, type)),
                        get_file_extension(mime_type),
                        UploadPath(name, p,
                            StoredFilename(type, get_document_type_index(docs, p, type))),
                        content.size, mime_type),
             WriteBytes(fs,
                 UploadPath(name, p,
                     StoredFilename(type, get_document_type_index(docs, p, type))),
                 content),
             validation, sanitized)

\* The PDF branch of save_file: an exception of sanitize_pdf is not caught.
save_pdf(docs, fs, sanitized, p, type, name, env, validation) ==
    IF sanitized.raised # None
    THEN SaveOutcome(sanitized.raised, NoSaved, fs, validation, sanitized)
    ELSE IF detect_mime_type(sanitized.value) # "application/pdf"
    THEN SaveOutcome("FileValidationError", NoSaved, fs, validation, sanitized)
    ELSE store_upload(docs, fs, sanitized.value, detect_mime_type(sanitized.value),
                      p, type, name, env, validation, sanitized)

\* A save_file that keeps the type of the upload for what it stores.
save_image_as_uploaded(docs, fs, converted, p, type, name, env, validation) ==
    IF converted.raised # None
    THEN SaveOutcome("FileValidationError", NoSaved, fs, validation, NotCalled)
    ELSE store_upload(docs, fs, converted.value, validation.mime_type,
                      p, type, name, env, validation, NotCalled)

\* The image branch of save_file: ImageValidationError and ImageConversionError
\* become FileValidationError.
save_image(docs, fs, converted, p, type, name, env, validation) ==
    IF converted.raised \in {"ImageValidationError", "ImageConversionError"}
    THEN SaveOutcome("FileValidationError", NoSaved, fs, validation, NotCalled)
    ELSE IF converted.raised # None
    THEN SaveOutcome(converted.raised, NoSaved, fs, validation, NotCalled)
    ELSE store_upload(docs, fs, converted.value, "application/pdf",
                      p, type, name, env, validation, NotCalled)

save_validated(docs, fs, content, p, type, name, env, validation) ==
    IF ~validation.is_valid
    THEN SaveOutcome("FileValidationError", NoSaved, fs, validation, NotCalled)
    ELSE IF validation.mime_type = "application/pdf"
    THEN save_pdf(docs, fs, sanitize_pdf(content, env), p, type, name, env, validation)
    ELSE IF validation.mime_type \in {"image/jpeg", "image/png"}
    THEN save_image(docs, fs, convert_image_to_pdf(content, env), p, type, name, env,
                    validation)
    ELSE SaveOutcome("FileValidationError", NoSaved, fs, validation, NotCalled)

\* A save_file that believes the content type the client declares.
save_file_as_declared(docs, fs, file, pos, p, type, name, env) ==
    save_validated(docs, fs, read(file, pos), p, type, name, env,
                   IF file.content_type \in ALLOWED_MIME_TYPES
                   THEN ValidationResult(TRUE, file.content_type, None)
                   ELSE _validate_file_content(read(file, pos), read(file, pos).size))

\* One call of the body of save_file: the stream is read from its position,
\* and the bytes read are validated, sanitized or converted, and stored.
save_file(docs, fs, file, pos, p, type, name, env) ==
    save_validated(docs, fs, read(file, pos), p, type, name, env,
                   _validate_file_content(read(file, pos), read(file, pos).size))

\* CheckConstraint "mime_type IN ('application/pdf', 'image/jpeg', 'image/png')".
check_mime_type(mime_type) == mime_type \in ALLOWED_MIME_TYPES

\* The uploads of the model: what the bytes are, and what the client says
\* they are.
ContentSizes == {4096, MAX_FILE_SIZE, MAX_FILE_SIZE + 1}

UploadContents ==
    {Bytes(c[1], n, c[2], FALSE) :
        c \in {<<"pdf", "clean">>, <<"pdf", "dangerous">>, <<"pdf", "encrypted">>,
               <<"pdf", "corrupt">>, <<"jpeg", "clean">>, <<"jpeg", "corrupt">>,
               <<"png", "clean">>, <<"gif", "clean">>, <<"none", "clean">>},
        n \in ContentSizes}

DeclaredNames == {"doc.pdf", "doc.jpg"}

DeclaredContentTypes == {"application/pdf", "image/jpeg"}

UploadFiles ==
    {UploadFile(f, t, c) : f \in DeclaredNames, t \in DeclaredContentTypes,
                           c \in UploadContents}

\* create_document up to its call of save_file, and the entry of the retry
\* wrapper around save_file.
UploadEnter(p, type, file) ==
    /\ up.pc = "idle"
    /\ rw.pc = "idle"
    /\ Cardinality(Uploads(documents, p)) < MaxUploads
    /\ next_id[p] <= MaxId
    /\ up' = [NoUpload EXCEPT !.pc = "save_file", !.file = file, !.process = p,
                              !.document_type = type]
    /\ rw' = [RwIdle EXCEPT !.pc = "call",
                            !.max_retries = STORAGE_RETRY_MAX_ATTEMPTS,
                            !.delay = STORAGE_RETRY_DELAY_MS]
    /\ UNCHANGED <<pdfVars, mg, sn, hc>>

\* create_document after save_file returned r: the row is added and flushed;
\* a row a check constraint of the table refuses makes the flush raise.
flush_document(docs, nid, p, type, r) ==
    IF check_file_size(r.file_size) /\ check_mime_type(r.mime_type)
    THEN [documents |-> docs \cup
              {[Document(DocId(p, nid[p]), p, type, r.stored_filename, r.file_path,
                         r.file_size, "pending") EXCEPT !.mime_type = r.mime_type]},
          next_id |-> [nid EXCEPT ![p] = nid[p] + 1], raised |-> None]
    ELSE [documents |-> docs, next_id |-> nid, raised |-> "IntegrityError"]

\* create_document once the wrapper is at frame after an attempt that ended as
\* r: an exception that leaves the wrapper leaves create_document, a return
\* goes on to the flush, a sleep keeps it waiting.
after_save_file(frame, r, flushed) ==
    [documents |-> IF frame.pc = "returned" THEN flushed.documents ELSE documents,
     next_id |-> IF frame.pc = "returned" THEN flushed.next_id ELSE next_id,
     up |-> [up EXCEPT
                !.pos = "end", !.validation = r.validation, !.result = r.result,
                !.sanitized = r.sanitized,
                !.pc = CASE frame.pc = "raised" -> "raised"
                         [] frame.pc = "returned" /\ flushed.raised = None -> "created"
                         [] frame.pc = "returned" -> "raised"
                         [] OTHER -> "save_file",
                !.raised = CASE frame.pc = "raised" -> frame.raised.kind
                             [] frame.pc = "returned" -> flushed.raised
                             [] OTHER -> None]]

\* One attempt of save_file under the retry wrapper, and what follows it in
\* create_document.
SaveFileCall(env) ==
    /\ up.pc = "save_file"
    /\ rw.pc = "call"
    /\ \E r \in {save_file(documents, files, up.file, up.pos, up.process,
                            up.document_type, patient_name[up.process], env)} :
         \E frame \in {wrapper_call(rw, IF r.raised = None THEN NoException
                                        ELSE Exception(r.raised, rw.attempt))} :
           \E a \in {after_save_file(frame, r,
                          flush_document(documents, next_id, up.process,
                                         up.document_type, r.result))} :
               /\ files' = r.files
               /\ rw' = frame
               /\ up' = [a.up EXCEPT !.env = env]
               /\ documents' = a.documents
               /\ next_id' = a.next_id
    /\ UNCHANGED <<patient_name, process_type, last, mg, sn, hc>>

\* The wrapper sleeps between two attempts of save_file.
SaveFileSleep ==
    /\ up.pc = "save_file"
    /\ rw.pc = "sleep"
    /\ rw' = wrapper_sleep(rw)
    /\ UNCHANGED <<pdfVars, up, mg, sn, hc>>

\* create_document has returned or raised; the route goes on to its next file.
UploadDone ==
    /\ up.pc \in {"created", "raised"}
    /\ up' = NoUpload
    /\ rw' = RwIdle
    /\ UNCHANGED <<pdfVars, mg, sn, hc>>

InitUpload ==
    /\ patient_name = [p \in Processes |-> <<"a">>]
    /\ process_type = [p \in Processes |-> "medicamento"]
    /\ documents = {}
    /\ files = <<>>
    /\ next_id = [p \in Processes |-> 1]
    /\ last = NoCall
    /\ rw = RwIdle
    /\ up = NoUpload
    /\ mg = NoMerge
    /\ sn = NoSanitize
    /\ hc = NoHealthChecker

NextUpload ==
    \/ \E p \in SoleProcess, type \in PairUploadTypes, file \in UploadFiles :
           UploadEnter(p, type, file)
    \/ \E env \in UploadEnvs : SaveFileCall(env)
    \/ SaveFileSleep
    \/ UploadDone

SpecUpload == InitUpload /\ [][NextUpload]_vars

-----------------------------------------------------------------------------
(* PDFValidator.get_valid_documents and PDFMerger.merge_documents,          *)
(* statement by statement, under the retry wrapper of merge_documents.      *)

\* The longest list of uploads a process starts with.
MaxMergeDocs == 3

MergeTypes == {"exame", "formulario", "receita", OUTRO}

\* An upload as the process starts with it: its type and its validation
\* status.
MergeUploads == [type : MergeTypes, status : {"valid", "pending"}]

\* The k-th page of the file of the document id.
Page(id, k) == <<id[1], id[2], k>>

\* The index save_file gave the k-th of the uploads s: one more than the
\* number of earlier uploads of its type.
UploadIndex(s, k) == Cardinality({j \in 1..(k - 1) : s[j].type = s[k].type}) + 1

\* The row of the k-th of the uploads s of process p.
UploadedDocument(s, k, p, name) ==
    Document(DocId(p, k), p, s[k].type, StoredFilename(s[k].type, UploadIndex(s, k)),
             UploadPath(name, p, StoredFilename(s[k].type, UploadIndex(s, k))),
             4096, s[k].status)

UploadedDocuments(s, p, name) == {UploadedDocument(s, k, p, name) : k \in 1..Len(s)}

\* The files of the uploads s, of two pages each; the file of the upload
\* numbered missing (0: none) is no longer in the storage.
UploadedFiles(s, p, name, missing) ==
    [path \in {UploadedDocument(s, k, p, name).file_path :
                   k \in (1..Len(s)) \ {missing}} |->
        LET d == CHOOSE e \in UploadedDocuments(s, p, name) : e.file_path = path
        IN  FileContent(p, <<Page(d.id, 1), Page(d.id, 2)>>)]

\* An except clause that catches ValueError only.
except_ValueError(kind) == IsInstance(kind, "ValueError")

\* except Exception as e
except_Exception(kind) == IsInstance(kind, "Exception")

\* What a part of merge_documents comes to: the class of the exception that
\* leaves it (or None) and the pages it has appended to combined_pdf.
Appended(raised, pages) == [raised |-> raised, pages |-> pages]

\* with pikepdf.open(doc.file_path) as src_pdf, and the loop over its pages, for
\* the i-th document of the list: pages appended before an exception stay in
\* combined_pdf.
open_document(fs, doc, i, env) ==
    IF ~file_exists(fs, doc.file_path)
    THEN Appended("FileNotFoundError", <<>>)
    ELSE IF env.fail_at = i /\ env.fail_in = "open"
    THEN Appended(env.fail_with, <<>>)
    ELSE IF env.fail_at = i /\ env.fail_in = "append"
    THEN Appended(env.fail_with, SubSeq(fs[doc.file_path].pages, 1, 1))
    ELSE Appended(None, fs[doc.file_path].pages)

\* The end of the inner try: an exception its except clause catches is logged
\* and the loop continues.
try_open_document(opened) ==
    IF opened.raised # None /\ except_Exception(opened.raised)
    THEN Appended(None, opened.pages)
    ELSE opened

\* A loop body that raises PDFFileNotFoundError for a missing file.
add_document_or_raise(fs, doc, i, env) ==
    IF ~file_exists(fs, doc.file_path)
    THEN Appended("PDFFileNotFoundError", <<>>)
    ELSE try_open_document(open_document(fs, doc, i, env))

\* The body of "for doc in documents" for the i-th document: a missing file is
\* logged and skipped before the inner try.
add_document(fs, doc, i, env) ==
    IF ~file_exists(fs, doc.file_path)
    THEN Appended(None, <<>>)
    ELSE try_open_document(open_document(fs, doc, i, env))

\* The loop from its i-th document on, given what that document came to.
RECURSIVE add_documents(_, _, _, _)
add_documents_after(fs, docs_seq, i, env, added) ==
    IF added.raised # None THEN added
    ELSE Appended(add_documents(fs, docs_seq, i + 1, env).raised,
                  added.pages \o add_documents(fs, docs_seq, i + 1, env).pages)

add_documents(fs, docs_seq, i, env) ==
    IF i > Len(docs_seq) THEN Appended(None, <<>>)
    ELSE add_documents_after(fs, docs_seq, i, env, add_document(fs, docs_seq[i], i, env))

\* The end of one call of the body of merge_documents: the class of the
\* exception that leaves it (or None), the value it returns and the files.
Merged(raised, ok, fs) == [raised |-> raised, ok |-> ok, files |-> fs]

\* The outer except clause: an exception it catches is logged and False is
\* returned.
merge_failed(kind, fs) ==
    IF except_Exception(kind) THEN Merged(None, FALSE, fs) ELSE Merged(kind, FALSE, fs)

\* combined_pdf.save(str(output_path)) and the check that the file is there.
save_combined(fs, pages, output_path, p, env) ==
    IF env.save = "OSError" THEN merge_failed("OSError", fs)
    ELSE IF env.save = "not_created"
    THEN Merged(None, file_exists(fs, output_path), fs)
    ELSE Merged(None, TRUE, WriteBytes(fs, output_path, FileContent(p, pages)))

merge_appended(fs, appended, output_path, p, env) ==
    IF appended.raised # None THEN merge_failed(appended.raised, fs)
    ELSE save_combined(fs, appended.pages, output_path, p, env)

\* One call of the body of merge_documents.
merge_documents_body(fs, docs_seq, output_path, p, env) ==
    IF env.pikepdf = "missing" THEN Merged(None, FALSE, fs)
    ELSE merge_appended(fs, add_documents(fs, docs_seq, 1, env), output_path, p, env)

\* The wrapper around a function that ends every call in the same way (kind is
\* the class it raises, or None when it returns): the frame when the wrapper
\* returns or raises.
RECURSIVE retry_loop(_, _)
retry_after(frame, kind) ==
    IF frame.pc = "sleep" THEN retry_loop(wrapper_sleep(frame), kind) ELSE frame

retry_loop(frame, kind) ==
    retry_after(wrapper_call(frame, IF kind = None THEN NoException
                                    ELSE Exception(kind, frame.attempt)),
                kind)

\* The environments of a merge of n documents: nothing fails, or one thing does.
MergeEnvs(n) ==
    {FairMergeEnv, MergeEnv("missing", 0, None, None, "ok"),
     MergeEnv("ok", 0, None, None, "OSError"),
     MergeEnv("ok", 0, None, None, "not_created")}
    \cup {MergeEnv("ok", i, where, kind, "ok") :
              i \in 1..n, where \in {"open", "append"}, kind \in {"PdfError", "OSError"}}

\* generate_combined_pdf up to the list of the valid documents.
GetValidDocuments(p) ==
    /\ mg.pc = "idle"
    /\ \E valid_documents \in {get_valid_documents(ProcessDocuments(documents, p))} :
           mg' = [mg EXCEPT !.pc = IF valid_documents = <<>> THEN "no_valid_docs"
                                   ELSE "validated",
                            !.valid_documents = valid_documents]
    /\ UNCHANGED <<pdfVars, rw, up, sn, hc>>

\* PDFMerger.merge_documents(valid_documents, output_path), wrapper included.
MergeDocuments(p, env) ==
    /\ mg.pc = "validated"
    /\ \E output_path \in {GeneratedPath(GeneratePdfFilename(patient_name[p],
                                                               process_type[p]))} :
         \E r \in {merge_documents_body(files, mg.valid_documents, output_path, p, env)} :
           /\ files' = r.files
           /\ rw' = retry_loop([RwIdle EXCEPT !.pc = "call",
                                              !.max_retries = STORAGE_RETRY_MAX_ATTEMPTS,
                                              !.delay = STORAGE_RETRY_DELAY_MS],
                               r.raised)
           /\ mg' = [mg EXCEPT !.pc = "merged", !.output_path = output_path,
                               !.env = env, !.result = r.raised = None /\ r.ok]
    /\ UNCHANGED <<patient_name, process_type, documents, next_id, last, up, sn, hc>>

InitMerge ==
    /\ patient_name = [p \in Processes |-> <<"a">>]
    /\ process_type = [p \in Processes |-> "medicamento"]
    /\ \E s \in SeqsUpTo(MergeUploads, MaxMergeDocs) :
         \E missing \in 0..Len(s) :
           /\ documents = UploadedDocuments(s, "p1", <<"a">>)
           /\ files = UploadedFiles(s, "p1", <<"a">>, missing)
           /\ next_id = [p \in Processes |-> IF p = "p1" THEN Len(s) + 1 ELSE 1]
    /\ last = NoCall
    /\ rw = RwIdle
    /\ up = NoUpload
    /\ mg = NoMerge
    /\ sn = NoSanitize
    /\ hc = NoHealthChecker

NextMerge ==
    \/ \E p \in SoleProcess : GetValidDocuments(p)
    \/ \E p \in SoleProcess, env \in MergeEnvs(Len(mg.valid_documents)) :
           MergeDocuments(p, env)

SpecMerge == InitMerge /\ [][NextMerge]_vars

-----------------------------------------------------------------------------
(* sanitize_pdf on the keys of a PDF, applied to an upload and then to its  *)
(* own output.                                                             *)

\* The pages of a PDF that may hold /AA.
PdfPages == {1, 2}

\* The PDFs given to sanitize_pdf: /JavaScript and /EmbeddedFiles are keys of
\* /Names, so a PDF without /Names holds neither.
Pdfs ==
    {pdf \in [kind : {"parseable"}, names : BOOLEAN, javascript : BOOLEAN,
              embedded_files : BOOLEAN, open_action : BOOLEAN, aa : BOOLEAN,
              page_aa : SUBSET PdfPages, serial : {"uploaded"}] :
        pdf.names \/ (~pdf.javascript /\ ~pdf.embedded_files)}
    \cup {Pdf(kind, FALSE, FALSE, FALSE, FALSE, FALSE, {}, "uploaded") :
              kind \in {"encrypted", "corrupt"}}

\* Whether pikepdf can be imported ("missing" not) and works ("error": an
\* exception that is neither PasswordError nor PdfError).
PikepdfStates == {"ok", "missing", "error"}

\* _remove_dangerous_elements: the PDF without the keys, and whether a key
\* was removed.
_remove_dangerous_elements(pdf) ==
    [modified |-> \/ (pdf.names /\ (pdf.javascript \/ pdf.embedded_files))
                  \/ pdf.open_action
                  \/ pdf.aa
                  \/ pdf.page_aa # {},
     pdf |-> [pdf EXCEPT !.javascript = IF pdf.names THEN FALSE ELSE @,
                         !.embedded_files = IF pdf.names THEN FALSE ELSE @,
                         !.open_action = FALSE,
                         !.aa = FALSE,
                         !.page_aa = {}]]

\* sanitize_pdf after pikepdf.open has returned: the PDF is saved again only
\* when a key was removed.
sanitize_opened(content, removed) ==
    IF removed.modified
    THEN Sanitized(None, [removed.pdf EXCEPT !.serial = "pikepdf"])
    ELSE Sanitized(None, content)

\* sanitize_pdf, on a PDF given by its keys.
sanitize_pdf_keys(content, pikepdf) ==
    IF pikepdf = "missing" THEN Sanitized(None, content)
    ELSE IF content.kind # "parseable" \/ pikepdf = "error"
    THEN Sanitized("ValueError", NoPdf)
    ELSE sanitize_opened(content, _remove_dangerous_elements(content))

\* sanitize_pdf(content) for an uploaded PDF.
SanitizePdf(pikepdf) ==
    /\ sn.pc = "given"
    /\ sn' = [sn EXCEPT !.pc = "once", !.once = sanitize_pdf_keys(sn.content, pikepdf)]
    /\ UNCHANGED <<pdfVars, rw, up, mg, hc>>

\* sanitize_pdf(output) for the output of the first call.
SanitizePdfAgain(pikepdf) ==
    /\ sn.pc = "once"
    /\ sn.once.raised = None
    /\ sn' = [sn EXCEPT !.pc = "twice",
                        !.twice = sanitize_pdf_keys(sn.once.output, pikepdf)]
    /\ UNCHANGED <<pdfVars, rw, up, mg, hc>>

InitSanitize ==
    /\ patient_name = [p \in Processes |-> <<"a">>]
    /\ process_type = [p \in Processes |-> "medicamento"]
    /\ documents = {}
    /\ files = <<>>
    /\ next_id = [p \in Processes |-> 1]
    /\ last = NoCall
    /\ rw = RwIdle
    /\ up = NoUpload
    /\ mg = NoMerge
    /\ \E content \in Pdfs : sn = [NoSanitize EXCEPT !.pc = "given", !.content = content]
    /\ hc = NoHealthChecker

NextSanitize ==
    \/ \E pikepdf \in PikepdfStates : SanitizePdf(pikepdf)
    \/ \E pikepdf \in PikepdfStates : SanitizePdfAgain(pikepdf)

SpecSanitize == InitSanitize /\ [][NextSanitize]_vars

-----------------------------------------------------------------------------
(* StorageHealthChecker.check, get_storage_health and measure_io_latency.  *)

\* The last reading of the clock.
MaxClock == 3

\* The largest number of probes a checker makes.
MaxProbes == 3

\* The values of check_interval_seconds.
CheckIntervals == {0, 1, 2}

\* path / f".storage_healthcheck_{os.getpid()}", for the one process that runs.
TestFile == Path("uploads", <<>>, None, Filename(<<".storage_healthcheck">>, "_", "pid"))

\* os.urandom(test_size_bytes)
TestData == Bytes("none", 1024 * 1024, "clean", FALSE)

ProbeEnvs ==
    {ProbeEnv(TRUE, w, r, u) :
        w \in {"ok", "fails", "partial"}, r \in {"ok", "fails"}, u \in {"ok", "fails"}}
    \cup {ProbeEnv(FALSE, "ok", "ok", "ok")}

\* The try block of measure_io_latency: the files after it and the latencies
\* it has measured ("measured", or None for one it did not come to).
Measured(fs, read_latency, write_latency) ==
    [files |-> fs, read_latency |-> read_latency, write_latency |-> write_latency]

write_and_read(fs, env) ==
    IF env.write = "fails" THEN Measured(fs, None, None)
    ELSE IF env.write = "partial" THEN Measured(WriteBytes(fs, TestFile, EmptyBytes), None, None)
    ELSE IF env.read = "fails" THEN Measured(WriteBytes(fs, TestFile, TestData), None, "measured")
    ELSE Measured(WriteBytes(fs, TestFile, TestData), "measured", "measured")

\* with suppress(Exception): test_file.unlink(missing_ok=True)
unlink_suppressed(fs, env) ==
    IF env.unlink = "ok" /\ TestFile \in DOMAIN fs THEN Unlink(fs, TestFile) ELSE fs

\* A measure_io_latency that removes the test file at the end of its try
\* block.
measure_io_latency_unlink_in_try(fs, env) ==
    IF write_and_read(fs, env).read_latency = None
    THEN write_and_read(fs, env)
    ELSE [write_and_read(fs, env) EXCEPT !.files = unlink_suppressed(@, env)]

\* measure_io_latency: the try block, and the unlink in its finally clause.
measure_io_latency(fs, env) ==
    [write_and_read(fs, env) EXCEPT !.files = unlink_suppressed(@, env)]

\* get_storage_health as probe number probe: the StorageHealth it returns and
\* the files after it.
storage_health(measured, probe) ==
    [health |-> StorageHealth(TRUE, measured.read_latency, measured.write_latency,
                              None, probe),
     files |-> measured.files]

get_storage_health(fs, env, probe) ==
    IF ~env.available
    THEN [health |-> StorageHealth(FALSE, None, None, "unavailable", probe), files |-> fs]
    ELSE storage_health(measure_io_latency(fs, env), probe)

\* A test of the cache that takes a snapshot of exactly check_interval
\* seconds for recent.
cache_is_recent_inclusive(now, last_check_time, check_interval) ==
    now - last_check_time <= check_interval

\* now - self._last_check_time < self.check_interval
cache_is_recent(now, last_check_time, check_interval) ==
    now - last_check_time < check_interval

\* if not force and self._last_check is not None: if <recent>: return
uses_cache(checker, force) ==
    /\ ~force
    /\ checker._last_check # NoStorageHealth
    /\ cache_is_recent(checker.now, checker._last_check_time, checker.check_interval)

\* StorageHealthChecker.check(force); a probe takes elapsed seconds.
Check(force, env, elapsed) ==
    /\ hc.check_interval \in CheckIntervals
    /\ hc.probes < MaxProbes
    /\ hc.now + elapsed <= MaxClock
    /\ IF uses_cache(hc, force)
       THEN /\ elapsed = 0
            /\ env = FairProbeEnv
            /\ hc' = [hc EXCEPT !.call = [force |-> force, now |-> hc.now,
                                          cached |-> hc._last_check,
                                          cached_time |-> hc._last_check_time,
                                          probed |-> FALSE, env |-> env,
                                          returned |-> hc._last_check]]
            /\ UNCHANGED files
       ELSE \E r \in {get_storage_health(files, env, hc.probes + 1)} :
            /\ hc' = [hc EXCEPT !._last_check = r.health,
                                !._last_check_time = hc.now,
                                !.probes = @ + 1,
                                !.now = @ + elapsed,
                                !.call = [force |-> force, now |-> hc.now,
                                          cached |-> hc._last_check,
                                          cached_time |-> hc._last_check_time,
                                          probed |-> TRUE, env |-> env,
                                          returned |-> r.health]]
            /\ files' = r.files
    /\ UNCHANGED <<patient_name, process_type, documents, next_id, last, rw, up, mg, sn>>

\* A second passes.
Tick ==
    /\ hc.check_interval \in CheckIntervals
    /\ hc.now < MaxClock
    /\ hc' = [hc EXCEPT !.now = @ + 1]
    /\ UNCHANGED <<pdfVars, rw, up, mg, sn>>

InitHealth ==
    /\ patient_name = [p \in Processes |-> <<"a">>]
    /\ process_type = [p \in Processes |-> "medicamento"]
    /\ documents = {}
    /\ files = <<>>
    /\ next_id = [p \in Processes |-> 1]
    /\ last = NoCall
    /\ rw = RwIdle
    /\ up = NoUpload
    /\ mg = NoMerge
    /\ sn = NoSanitize
    /\ \E check_interval \in CheckIntervals :
           hc = [NoHealthChecker EXCEPT !.check_interval = check_interval]

NextHealth ==
    \/ \E force \in BOOLEAN, env \in ProbeEnvs, elapsed \in {0, 1} :
           Check(force, env, elapsed)
    \/ Tick

SpecHealth == InitHealth /\ [][NextHealth]_vars

-----------------------------------------------------------------------------
(* Uploads and deletions of the documents of a process: the names          *)
(* get_document_type_index gives.                                          *)

\* delete_file: the file is unlinked when it is there; an exception of the
\* unlink is logged and False is returned.
delete_file(fs, path, unlink) ==
    IF file_exists(fs, path) /\ unlink = "ok" THEN Unlink(fs, path) ELSE fs

\* delete_document for the document with the given id:
\* delete_file(document.file_path), db.delete(document) and db.flush().
DeleteDocument(id, unlink) ==
    \E d \in {e \in documents : e.id = id} :
        /\ files' = delete_file(files, d.file_path, unlink)
        /\ documents' = documents \ {d}
        /\ last' = NoCall
        /\ UNCHANGED <<patient_name, process_type, next_id, rw, up, mg, sn, hc>>

NextNames ==
    \/ \E p \in SoleProcess, type \in UploadTypes, size \in UploadSizes :
           CreateDocument(p, type, size)
    \/ \E p \in SoleProcess, n \in 1..MaxId, unlink \in {"ok", "fails"} :
           DeleteDocument(DocId(p, n), unlink)

SpecNames == Init /\ [][NextNames]_vars

-----------------------------------------------------------------------------
(* The claims on the combined PDF of one process (Spec).                   *)

EnsureReturned(p) ==
    last.op = "ensure_combined_pdf" /\ last.process = p /\ ~last.raised

Hit(r) == IsDocument(r.pdf) /\ ~r.generated /\ ~r.skipped

Generated(r) == IsDocument(r.pdf) /\ r.generated /\ ~r.skipped

SkippedNoValidDocs == PDFEnsureResult(NoDocument, FALSE, TRUE, "no_valid_docs")

\* C1: after any sequence of ensure, batch and generate calls, uploads,
\* validation changes and out-of-band deletions of generated files, a process
\* has at most one combined PDF row.
C1_AtMostOneCombined ==
    \A p \in Processes : Cardinality(CombinedPdfs(documents, p)) <= 1

\* A generation has replaced a combined PDF row that existed when it started.
C1_Witness ==
    /\ last.op \in {"ensure_combined_pdf", "generate_combined_pdf"}
    /\ last.pre_combined
    /\ last.records_changed
    /\ Cardinality(CombinedPdfs(documents, last.process)) = 1

\* C2: the combined PDF ensure_combined_pdf returns holds the merge of the
\* documents of the process that are valid when it returns: a change of the
\* valid documents since the generation makes the next ensure regenerate it.
C2_ReturnedPdfIsCurrent ==
    \A p \in Processes :
        (EnsureReturned(p) /\ IsDocument(last.result.pdf))
        => /\ file_exists(files, last.result.pdf.file_path)
           /\ files[last.result.pdf.file_path].pages =
                  MergedPages(files, get_valid_documents(ProcessDocuments(documents, p)))

\* C3: ensure_combined_pdf on a process whose combined PDF row exists with its
\* file present returns that row as a cache hit (generated and skipped false),
\* deletes and writes no file and changes no row.
C3_EnsureIdempotent ==
    \A p \in Processes :
        (last.op = "ensure_combined_pdf" /\ last.process = p
            /\ last.pre_combined /\ last.pre_file)
        => /\ ~last.raised
           /\ Hit(last.result)
           /\ last.result.pdf \in CombinedPdfs(documents, p)
           /\ last.fs_ops = 0
           /\ ~last.merger_called
           /\ ~last.records_changed

C3_Witness ==
    /\ last.op = "ensure_combined_pdf"
    /\ last.pre_combined /\ last.pre_file
    /\ Hit(last.result)

\* The start of the staleness case: the combined PDF row exists, its file is
\* gone, and the process has a valid document.
StaleAtEntry(p) ==
    /\ last.op = "ensure_combined_pdf" /\ last.process = p
    /\ last.pre_combined /\ ~last.pre_file /\ last.pre_valid

C5_NoValidDocsSkipped ==
    \A p \in Processes :
        (last.op = "ensure_combined_pdf" /\ last.process = p /\ ~last.pre_valid)
        => /\ ~last.raised
           /\ last.result = SkippedNoValidDocs
           /\ CombinedPdfs(documents, p) = {}
           /\ ~last.merger_called

\* C6: when the merge fails for a process with valid documents,
\* ensure_combined_pdf reports a failure, which is told apart from the
\* outcome of a process without valid documents, and no combined PDF row is
\* stored.
C6_MergeFailureReported ==
    \A p \in Processes :
        (EnsureReturned(p) /\ last.merger_called /\ last.env.merge = "save_fails")
        => /\ last.result # SkippedNoValidDocs
           /\ last.result.error # None
           /\ CombinedPdfs(documents, p) = {}

-----------------------------------------------------------------------------
(* The claims on two processes (SpecPair).                                 *)

\* C7: the file of every combined PDF row was written by a merge for the row's
\* own process, whatever the names and types of the processes.
C7_CombinedFileIsOwn ==
    \A d \in documents :
        (d.document_type = PDF_COMBINADO /\ file_exists(files, d.file_path))
        => files[d.file_path].owner = d.process_id

\* C8: ensure_combined_pdfs_batch returns, with an outcome for every id of its
\* input list.
C8_BatchCoversEveryId ==
    last.op = "ensure_combined_pdfs_batch"
    => /\ ~last.raised
       /\ \A i \in 1..Len(last.ids) : last.ids[i] \in DOMAIN last.results

-----------------------------------------------------------------------------
(* The claims on retry_file_operation (SpecRetry).                         *)

Min(a, b) == IF a <= b THEN a ELSE b

RetryDone == rw.pc \in {"returned", "raised"}

\* The retryable class: OSError (IOError is the same class), StorageRetryableError
\* and their subclasses.
InRetryableClass(kind) ==
    IsInstance(kind, "OSError") \/ IsInstance(kind, "StorageRetryableError")

\* The wrapped function raises a retryable error on each of its first
\* Len(rw.raises) calls and returns afterwards.
RaisesOnlyRetryable ==
    \A i \in 1..Len(rw.raises) : InRetryableClass(rw.raises[i])

\* C9: with max_retries = n >= 0 around a function that raises a retryable
\* error on its first k calls, the wrapper ends after min(k, n) + 1 calls; for
\* k <= n it returns, and for k > n it raises a StorageRetryableError of its
\* own whose cause is the error of call n + 1, the last one.
C9_RetryAttemptCount ==
    (RetryDone /\ rw.max_retries >= 0 /\ RaisesOnlyRetryable)
    => /\ rw.attempts = Min(Len(rw.raises), rw.max_retries) + 1
       /\ Len(rw.raises) <= rw.max_retries
          => /\ rw.pc = "returned"
             /\ rw.raised = NoException
       /\ Len(rw.raises) > rw.max_retries
          => /\ rw.pc = "raised"
             /\ rw.attempts = rw.max_retries + 1
             /\ rw.raised = Exception("StorageRetryableError", -1)
             /\ rw.cause = Exception(rw.raises[rw.max_retries + 1], rw.max_retries)

\* The configured three retries are used up by a function that keeps failing.
C9_Witness ==
    /\ rw.pc = "raised"
    /\ rw.max_retries = STORAGE_RETRY_MAX_ATTEMPTS
    /\ RaisesOnlyRetryable
    /\ Len(rw.raises) > rw.max_retries
    /\ rw.attempts = STORAGE_RETRY_MAX_ATTEMPTS + 1
    /\ rw.cause.attempt = STORAGE_RETRY_MAX_ATTEMPTS

\* C10: when the first call of the wrapped function raises an exception that
\* is not retryable, the wrapper raises that same exception, unwrapped, after
\* that one call and without sleeping.
C10_NonRetryablePropagates ==
    (/\ rw.attempts >= 1
     /\ rw.max_retries >= 0
     /\ rw.raises # <<>>
     /\ ~InRetryableClass(rw.raises[1]))
    => /\ rw.pc = "raised"
       /\ rw.raised = Exception(rw.raises[1], 0)
       /\ rw.cause = NoException
       /\ rw.attempts = 1
       /\ rw.sleeps = <<>>

C10_Witness ==
    /\ rw.pc = "raised"
    /\ rw.max_retries = STORAGE_RETRY_MAX_ATTEMPTS
    /\ rw.raised = Exception("FileValidationError", 0)
    /\ rw.attempts = 1

\* ---------------------------------------------------------------------------
\* Uploads (SpecUpload)
\* ---------------------------------------------------------------------------

\* The files the uploads have stored.
StoredUploads == {path \in DOMAIN files : path.dir = "uploads"}

\* The wrapper around save_file has made its first call of it, and only that.
FirstAttemptDone == up.pc # "idle" /\ up.pos = "end" /\ rw.attempts = 1

\* create_document has come to its end, by a return or by an exception.
UploadEnded == up.pc \in {"created", "raised"}

\* C11: every file an upload stores has passed through the PDF sanitizer,
\* whether it was uploaded as a PDF or converted from an image.
C11_StoredUploadsSanitized ==
    \A path \in StoredUploads : files[path].inspected

\* C12: sanitize_pdf fails closed: whenever save_file has called it, it has
\* either raised or returned bytes it has inspected; it never hands back its
\* input uninspected.
C12_SanitizeFailsClosed ==
    up.sanitized # NotCalled
    => \/ up.sanitized.raised # None
       \/ up.sanitized.value.inspected

\* C13: an upload of an encrypted or corrupt PDF ends in a FileValidationError
\* of save_file after exactly one attempt, and no other exception class leaves
\* save_file for it.
C13_BadPdfIsFileValidationError ==
    (/\ UploadEnded
     /\ up.file.content.magic = "pdf"
     /\ up.file.content.body \in {"encrypted", "corrupt"}
     /\ up.file.content.size <= MAX_FILE_SIZE)
    => /\ up.pc = "raised"
       /\ up.raised = "FileValidationError"
       /\ rw.attempts = 1

\* C17: every persisted document has a byte size above 0 and at most
\* MAX_FILE_SIZE, and so has the byte size save_file returns, which it
\* recomputes after sanitization or conversion.
C17_ByteSizeInRange ==
    /\ \A d \in documents : d.file_size > 0 /\ d.file_size <= MAX_FILE_SIZE
    /\ (up.pc # "idle" /\ rw.pc = "returned")
       => (up.result.file_size > 0 /\ up.result.file_size <= MAX_FILE_SIZE)

\* C18: whatever type was uploaded, a save_file that returns reports the type
\* application/pdf and a name with the extension .pdf, and no upload is stored
\* in another form than PDF.
C18_StoredAsPdf ==
    /\ (up.pc # "idle" /\ rw.pc = "returned")
       => (up.result.mime_type = "application/pdf" /\ up.result.extension = ".pdf")
    /\ \A path \in StoredUploads : detect_mime_type(files[path]) = "application/pdf"

\* An uploaded JPEG has been stored as a PDF.
C18_Witness ==
    /\ up.pc = "created"
    /\ up.file.content.magic = "jpeg"
    /\ up.validation.mime_type = "image/jpeg"
    /\ up.result.mime_type = "application/pdf"
    /\ up.result.extension = ".pdf"
    /\ up.result.file_path \in StoredUploads

\* C19: the classification of an upload is a function of its bytes and their
\* length alone, whatever name and content type the client declares: JPEG
\* bytes are classified image/jpeg also under a name ending in .pdf.
C19_ClassifiedByContent ==
    FirstAttemptDone
    => /\ up.validation =
              _validate_file_content(up.file.content, up.file.content.size)
       /\ (up.file.content.magic = "jpeg" /\ up.file.content.size <= MAX_FILE_SIZE)
          => (up.validation.is_valid /\ up.validation.mime_type = "image/jpeg")

\* JPEG bytes declared as doc.pdf of type application/pdf are classified
\* image/jpeg.
C19_Witness ==
    /\ FirstAttemptDone
    /\ up.file.filename = "doc.pdf"
    /\ up.file.content_type = "application/pdf"
    /\ up.file.content.magic = "jpeg"
    /\ up.validation = ValidationResult(TRUE, "image/jpeg", None)

\* C20: the size rule comes first and its bound is inclusive: content of
\* MAX_FILE_SIZE bytes is not rejected for its size and is valid exactly when
\* its sniffed type is allowed; content of one byte more is rejected with the
\* size error and no type, whatever its bytes are.
C20_SizeRuleFirstInclusive ==
    FirstAttemptDone
    => /\ up.file.content.size = MAX_FILE_SIZE + 1
          => up.validation = ValidationResult(FALSE, None, "Arquivo muito grande")
       /\ up.file.content.size = MAX_FILE_SIZE
          => /\ up.validation.error # "Arquivo muito grande"
             /\ up.validation.is_valid
                <=> up.file.content.magic \in {"pdf", "jpeg", "png"}

\* A PDF of exactly MAX_FILE_SIZE bytes has been accepted and recorded.
C20_Witness ==
    /\ up.pc = "created"
    /\ rw.attempts = 1
    /\ up.file.content.size = MAX_FILE_SIZE
    /\ up.validation = ValidationResult(TRUE, "application/pdf", None)
    /\ \E d \in documents : d.file_path = up.result.file_path
                             /\ d.file_size = MAX_FILE_SIZE

\* ---------------------------------------------------------------------------
\* The merger (SpecMerge)
\* ---------------------------------------------------------------------------

\* The precedence of the categories: form, declaration, prescription, medical
\* report, personal id, exam, and every other category after them.
CategoryRank(type) ==
    CASE type = "formulario" -> 1
      [] type = "declaracao" -> 2
      [] type = "receita" -> 3
      [] type = "relatorio" -> 4
      [] type = "documento_pessoal" -> 5
      [] type = "exame" -> 6
      [] OTHER -> 7

\* The category of the document a page of a combined PDF came from.
CategoryOfPage(page) ==
    (CHOOSE d \in documents : d.id = DocId(page[1], page[2])).document_type

InPrecedenceOrder(types) ==
    \A i, j \in 1..Len(types) :
        i < j => CategoryRank(types[i]) <= CategoryRank(types[j])

\* merge_documents has returned True and written the combined PDF.
MergeSucceeded == mg.pc = "merged" /\ rw.pc = "returned" /\ mg.result

\* C14: the documents given to the merger are the valid documents of the
\* process, sorted by the precedence of their categories with every category
\* outside the list last, and the pages of the combined PDF follow that order
\* whatever the order of the uploads.
C14_MergeOrder ==
    /\ mg.pc # "idle"
       => /\ InPrecedenceOrder([i \in 1..Len(mg.valid_documents) |->
                                    mg.valid_documents[i].document_type])
          /\ {mg.valid_documents[i] : i \in 1..Len(mg.valid_documents)}
                 = {d \in documents : d.validation_status = "valid"}
          /\ Len(mg.valid_documents)
                 = Cardinality({d \in documents : d.validation_status = "valid"})
    /\ MergeSucceeded
       => InPrecedenceOrder([i \in 1..Len(files[mg.output_path].pages) |->
                                 CategoryOfPage(files[mg.output_path].pages[i])])

\* Uploads made in the order exam, form, prescription are merged in the order
\* form, prescription, exam.
C14_Witness ==
    /\ MergeSucceeded
    /\ mg.env = FairMergeEnv
    /\ [i \in 1..Len(ProcessDocuments(documents, "p1")) |->
           ProcessDocuments(documents, "p1")[i].document_type]
          = <<"exame", "formulario", "receita">>
    /\ files[mg.output_path].pages
          = <<Page(DocId("p1", 2), 1), Page(DocId("p1", 2), 2),
              Page(DocId("p1", 3), 1), Page(DocId("p1", 3), 2),
              Page(DocId("p1", 1), 1), Page(DocId("p1", 1), 2)>>

InputFailed ==
    /\ mg.env.fail_at \in 1..Len(mg.valid_documents)
    /\ file_exists(files, mg.valid_documents[mg.env.fail_at].file_path)

\* pikepdf could not be imported, the save raised, or the saved file was not
\* there.
OutputFailed == mg.env.pikepdf = "missing" \/ mg.env.save # "ok"

PagesUpToFailure(i) ==
    IF ~file_exists(files, mg.valid_documents[i].file_path) THEN <<>>
    ELSE IF mg.env.fail_at = i /\ mg.env.fail_in = "open" THEN <<>>
    ELSE IF mg.env.fail_at = i /\ mg.env.fail_in = "append"
    THEN <<Page(mg.valid_documents[i].id, 1)>>
    ELSE <<Page(mg.valid_documents[i].id, 1), Page(mg.valid_documents[i].id, 2)>>

RECURSIVE PagesFrom(_)
PagesFrom(i) ==
    IF i > Len(mg.valid_documents) THEN <<>>
    ELSE PagesUpToFailure(i) \o PagesFrom(i + 1)

HasDangerousElements(pdf) ==
    \/ pdf.javascript
    \/ pdf.embedded_files
    \/ pdf.open_action
    \/ pdf.aa
    \/ pdf.page_aa # {}

\* C21: sanitize_pdf returns a PDF without dangerous elements byte for byte;
\* what it returns for a parseable PDF holds none of /JavaScript,
\* /EmbeddedFiles, /OpenAction, /AA of the document and /AA of a page; and
\* sanitizing what it returned returns it unchanged.
C21_SanitizeIdempotent ==
    /\ (sn.pc \in {"once", "twice"} /\ sn.once.raised = None)
       => /\ ~HasDangerousElements(sn.content) => sn.once.output = sn.content
          /\ sn.content.kind = "parseable" => ~HasDangerousElements(sn.once.output)
    /\ (sn.pc = "twice" /\ sn.twice.raised = None)
       => sn.twice.output = sn.once.output

\* ---------------------------------------------------------------------------
\* The storage health checker (SpecHealth)
\* ---------------------------------------------------------------------------

\* check has been called.
Checked == hc.call.now # -1

\* The last check was the first one, was forced, or came check_interval
\* seconds or more after the timestamp of the cached snapshot.
FreshProbeDue ==
    \/ hc.call.force
    \/ hc.call.cached = NoStorageHealth
    \/ hc.call.now - hc.call.cached_time >= hc.check_interval

\* C22: a check that is not forced and is made less than check_interval
\* seconds after the last probe returns the cached snapshot without a probe
\* and leaves the cache as it is; the first check, a forced check and a check
\* made check_interval seconds or more after the last probe make a probe and
\* replace the cached snapshot and its timestamp.
C22_HealthCheckCached ==
    Checked
    => /\ ~FreshProbeDue
          => /\ ~hc.call.probed
             /\ hc.call.returned = hc.call.cached
             /\ hc._last_check = hc.call.cached
             /\ hc._last_check_time = hc.call.cached_time
             /\ hc.probes = hc.call.cached.probe
       /\ FreshProbeDue
          => /\ hc.call.probed
             /\ hc.probes = hc.call.cached.probe + 1
             /\ hc.call.returned.probe = hc.probes
             /\ hc._last_check = hc.call.returned
             /\ hc._last_check_time = hc.call.now

\* With check_interval 2, a check one second after a probe has returned the
\* cached snapshot.
C22_Witness ==
    /\ Checked
    /\ hc.check_interval = 2
    /\ ~hc.call.force
    /\ hc.call.now = hc.call.cached_time + 1
    /\ ~hc.call.probed
    /\ hc.call.returned.probe = 1
    /\ hc.probes = 1

\* The last check has run measure_io_latency.
LatencyMeasured == Checked /\ hc.call.probed /\ hc.call.env.available

MergeIoError ==
    \/ mg.env.save = "OSError"
    \/ (InputFailed /\ mg.env.fail_with = "OSError")

\* C24: when a file touch inside the merger raises a retryable I/O error, the
\* retry wrapper attempts the merge again with backoff; an error that lasts
\* is attempted the configured number of retries more, a sleep before each
\* retry, before the failure is reported.
C24_MergeIoErrorRetried ==
    (mg.pc = "merged" /\ MergeIoError)
    => /\ rw.attempts = STORAGE_RETRY_MAX_ATTEMPTS + 1
       /\ Len(rw.sleeps) = STORAGE_RETRY_MAX_ATTEMPTS

\* The upload is one save_file accepts when nothing fails: bytes of an
\* allowed type, within the size limit, that the sanitizer or the converter
\* takes.
ValidUpload ==
    /\ up.file.content.magic \in {"pdf", "jpeg", "png"}
    /\ up.file.content.size <= MAX_FILE_SIZE
    /\ up.file.content.body = "clean"

\* The first attempt of save_file raised OSError at its write, and the second
\* attempt found the storage and the installation in order.
RetriedAfterWriteError ==
    /\ up.pc # "idle"
    /\ rw.attempts = 2
    /\ rw.last_exception = Exception("OSError", 0)
    /\ up.env = FairEnv

\* C25: when an attempt of save_file fails with a retryable I/O error at the
\* write and the storage then recovers, the next attempt processes the bytes
\* of the upload, stores them and returns; a transient storage error never
\* turns a valid upload into a FileValidationError.
C25_RetryStoresUpload ==
    /\ (RetriedAfterWriteError /\ ValidUpload)
       => /\ up.pc = "created"
          /\ rw.pc = "returned"
          /\ file_exists(files, up.result.file_path)
          /\ files[up.result.file_path].size = up.result.file_size
          /\ up.result.file_size > 0
    /\ (UploadEnded /\ ValidUpload /\ rw.attempts >= 2)
       => up.raised # "FileValidationError"

\* ---------------------------------------------------------------------------
\* The names of the uploads (SpecNames)
\* ---------------------------------------------------------------------------

\* C26: after any sequence of uploads and deletions, no two documents of a
\* process have the same stored path, so that an upload never writes over
\* the file of another document that exists.
C26_StoredPathsUnique ==
    \A d, e \in documents :
        (d.process_id = e.process_id /\ d.file_path = e.file_path) => d = e

\* ---------------------------------------------------------------------------
\* The previous combined PDF, the merge inputs, the rows after an ensure
\* ---------------------------------------------------------------------------

\* A direct call of generate_combined_pdf (batch_generate_pdfs with
\* force_regenerate makes the same call) on a process whose combined PDF row
\* had its file, that ended without a new combined PDF: skipped for want of a
\* valid document, or the merge failed.
GenerateKeptNothingNew(p) ==
    /\ last.op = "generate_combined_pdf" /\ last.process = p
    /\ last.pre_combined /\ last.pre_file
    /\ ~last.raised
    /\ \/ ~last.pre_valid
       \/ last.merger_called /\ last.env.merge # "ok"

\* C27: generate_combined_pdf removes the previous combined PDF of a process
\* (row and file) only where the merge succeeds and a new row is persisted;
\* when the generation is skipped for want of valid documents or the merge
\* fails, the combined PDF row that was there with its file is still there
\* with its file.
C27_PreviousCombinedKeptUnlessMerged ==
    \A p \in Processes :
        GenerateKeptNothingNew(p)
        => \E d \in CombinedPdfs(documents, p) : file_exists(files, d.file_path)

\* A call of generate_combined_pdf on p, direct or through ensure_combined_pdf,
\* whose merge wrote the generated file.
MergedFor(p) ==
    /\ last.op \in {"generate_combined_pdf", "ensure_combined_pdf"}
    /\ last.process = p
    /\ last.merger_called /\ last.env.merge = "ok"

\* The pages of the generated file of p: one page for each merge input, which
\* bears the id of the input.
GeneratedPages(p) ==
    files[GeneratedPath(GeneratePdfFilename(patient_name[p], process_type[p]))].pages

\* The ids of the documents of p that are valid and not a combined PDF.
ValidUploadIds(p) ==
    {d.id : d \in {e \in documents : /\ e.process_id = p
                                     /\ e.validation_status = "valid"
                                     /\ e.document_type # PDF_COMBINADO}}

C29_NoStaleCombinedAfterEnsure ==
    \A p \in Processes :
        EnsureReturned(p)
        => /\ \A d \in CombinedPdfs(documents, p) : file_exists(files, d.file_path)
           /\ (last.pre_combined /\ ~last.pre_file)
              => /\ last.records_changed
                 /\ IsDocument(last.result.pdf) => last.result.generated

\* An ensure that found a stale row and could not replace it.
C29_Witness ==
    /\ EnsureReturned("p1")
    /\ last.pre_combined /\ ~last.pre_file
    /\ ~IsDocument(last.result.pdf)
    /\ CombinedPdfs(documents, "p1") = {}

\* ---------------------------------------------------------------------------
\* The backoff schedule (SpecRetry)
\* ---------------------------------------------------------------------------

\* The wrapper has left: func returned, or an exception went to the caller.
WrapperLeft == rw.pc \in {"returned", "raised"} /\ rw.attempts >= 1

\* C30: under exponential backoff the sleep before the k-th retry lasts
\* retry_delay * 2^(k-1); there is exactly one sleep between two consecutive
\* attempts, at most max_retries in all, and none after the attempt that
\* succeeds nor after the last attempt that fails.
C30_BackoffSchedule ==
    rw.exponential_backoff
    => /\ \A k \in 1..Len(rw.sleeps) :
              rw.sleeps[k] = STORAGE_RETRY_DELAY_MS * 2^(k - 1)
       /\ rw.sleeps = <<>> \/ Len(rw.sleeps) <= rw.max_retries
       /\ rw.pc = "call" => Len(rw.sleeps) = rw.attempts
       /\ rw.pc = "sleep" => Len(rw.sleeps) = rw.attempts - 1
       /\ WrapperLeft => Len(rw.sleeps) = rw.attempts - 1

\* Every attempt failed: the retries were all taken, each after its sleep.
C30_Witness ==
    /\ rw.exponential_backoff
    /\ rw.pc = "raised"
    /\ rw.raised.kind = "StorageRetryableError"
    /\ rw.max_retries >= 2
    /\ Len(rw.sleeps) = rw.max_retries

====
